---------------------------- MODULE Spec2Model ----------------------------
(***************************************************************************)
(* Model of qota-ocr-service/app.py: the /processar-documento handler, the *)
(* hybrid PDF text extractor, the text normalizer, the due-date and        *)
(* total-value extractors and the address matcher.                         *)
(*                                                                         *)
(* A text is a sequence of characters; a character is a one-element        *)
(* string, except the accented letters and combining marks, which carry a  *)
(* name ("A_acute" is U+00C1, "acute" is U+0301).                          *)
(***************************************************************************)
EXTENDS Integers, Sequences, FiniteSets, TLC

VARIABLES pc, request, full_text, native_failed, ocr_invoked, ocr_failed,
          extracted_text, today, financial_data, form, response

vars == <<pc, request, full_text, native_failed, ocr_invoked, ocr_failed,
          extracted_text, today, financial_data, form, response>>

\* Python's None: a one-element tuple that is no text of the model.
None == <<"None">>

\* ------------------------------------------------------------------------
\* Bounds of the model
\* ------------------------------------------------------------------------

\* Pages of an uploaded PDF.
MaxPages == 2

\* Entities the named-entity recognizer reports on one text.
MaxEntities == 1

\* ------------------------------------------------------------------------
\* Program constants
\* ------------------------------------------------------------------------

ANALYSIS_TYPE_EXTRACTION == "extracao_conta"

ANALYSIS_TYPE_VALIDATION == "validacao_endereco"

OCR_TEXT_LENGTH_THRESHOLD == 150

\* ------------------------------------------------------------------------
\* Characters
\* ------------------------------------------------------------------------

Min(S) == CHOOSE x \in S : \A y \in S : x <= y

Max(S) == CHOOSE x \in S : \A y \in S : x >= y

DigitChars == <<"0", "1", "2", "3", "4", "5", "6", "7", "8", "9">>

\* \d
IsDigit(c) == \E i \in 1..10 : DigitChars[i] = c

DigitVal(c) == (CHOOSE i \in 1..10 : DigitChars[i] = c) - 1

\* \s, and the separators of str.split() and str.strip()
IsSpace(c) == c \in {" ", "\n", "\t"}

\* unicodedata.category(c) == 'Mn'
IsMn(c) == c \in {"acute", "tilde", "cedilla"}

PunctChars == {":", "-", "/", ".", ",", "$", "(", ")", "#"}

\* \w ; a combining mark is not alphanumeric
IsWord(c) == ~IsSpace(c) /\ ~IsMn(c) /\ c \notin PunctChars

\* unicodedata.normalize('NFD', c) of one character
NFDChar(c) ==
    CASE c = "A_acute"   -> <<"A", "acute">>
      [] c = "a_acute"   -> <<"a", "acute">>
      [] c = "a_tilde"   -> <<"a", "tilde">>
      [] c = "e_acute"   -> <<"e", "acute">>
      [] c = "c_cedilla" -> <<"c", "cedilla">>
      [] OTHER           -> <<c>>

UpperChars == <<"A", "B", "C", "D", "E", "F", "G", "H", "I", "J", "K", "L", "M",
                "N", "O", "P", "Q", "R", "S", "T", "U", "V", "W", "X", "Y", "Z",
                "A_acute">>

LowerChars == <<"a", "b", "c", "d", "e", "f", "g", "h", "i", "j", "k", "l", "m",
                "n", "o", "p", "q", "r", "s", "t", "u", "v", "w", "x", "y", "z",
                "a_acute">>

\* str.lower() of one character
LowerChar(c) ==
    IF \E i \in DOMAIN UpperChars : UpperChars[i] = c
    THEN LowerChars[CHOOSE i \in DOMAIN UpperChars : UpperChars[i] = c]
    ELSE c

\* ------------------------------------------------------------------------
\* Strings
\* ------------------------------------------------------------------------

RECURSIVE SortedSeq(_)
\* The elements of a finite set of integers, ascending.
SortedSeq(S) ==
    IF S = {} THEN <<>>
    ELSE LET m == Min(S) IN <<m>> \o SortedSeq(S \ {m})

RECURSIVE Flatten(_)
\* ''.join(parts), by halves
Flatten(parts) ==
    IF parts = <<>> THEN <<>>
    ELSE IF Len(parts) = 1 THEN parts[1]
    ELSE LET mid == Len(parts) \div 2
         IN Flatten(SubSeq(parts, 1, mid))
                \o Flatten(SubSeq(parts, mid + 1, Len(parts)))

\* sep.join(parts)
Join(sep, parts) ==
    Flatten([k \in 1..Len(parts) |->
                IF k = 1 THEN parts[k] ELSE sep \o parts[k]])

\* text[i:i+len(w)] == w, for a 1-based i
StartsWithAt(text, i, w) ==
    /\ i >= 1
    /\ i + Len(w) - 1 <= Len(text)
    /\ \A k \in 1..Len(w) : text[i + k - 1] = w[k]

\* w in text
Contains(text, w) == \E i \in 1..(Len(text) + 1) : StartsWithAt(text, i, w)

RECURSIVE SkipSpaces(_, _)
\* The first position at or after i that holds no whitespace (Len + 1 if none).
SkipSpaces(text, i) ==
    IF i <= Len(text) /\ IsSpace(text[i]) THEN SkipSpaces(text, i + 1) ELSE i

RECURSIVE SkipSpacesBack(_, _)
\* The last position at or before i that holds no whitespace (0 if none).
SkipSpacesBack(text, i) ==
    IF i >= 1 /\ IsSpace(text[i]) THEN SkipSpacesBack(text, i - 1) ELSE i

\* str.strip()
strip(text) ==
    SubSeq(text, SkipSpaces(text, 1), SkipSpacesBack(text, Len(text)))

\* str.split(): the maximal runs of non-whitespace, in order
split(text) ==
    LET starts == SortedSeq({i \in 1..Len(text) :
                      ~IsSpace(text[i]) /\ (i = 1 \/ IsSpace(text[i - 1]))})
        ends   == SortedSeq({i \in 1..Len(text) :
                      ~IsSpace(text[i]) /\ (i = Len(text) \/ IsSpace(text[i + 1]))})
    IN [k \in 1..Len(starts) |-> SubSeq(text, starts[k], ends[k])]

\* str.split(sep) for a one-character sep: the pieces between the separators
split_on(text, sep) ==
    LET cuts  == SortedSeq({i \in 1..Len(text) : text[i] = sep})
        n     == Len(cuts)
        from(k) == IF k = 1 THEN 1 ELSE cuts[k - 1] + 1
        to(k)   == IF k = n + 1 THEN Len(text) ELSE cuts[k] - 1
    IN [k \in 1..(n + 1) |-> SubSeq(text, from(k), to(k))]

\* unicodedata.normalize('NFD', text)
NFD(text) == Flatten([i \in 1..Len(text) |-> NFDChar(text[i])])

\* ''.join(c for c in text if unicodedata.category(c) != 'Mn')
StripMn(text) == SelectSeq(text, LAMBDA c : ~IsMn(c))

\* str.lower()
lower(text) == [i \in 1..Len(text) |-> LowerChar(text[i])]

\* ------------------------------------------------------------------------
\* normalize_text
\* ------------------------------------------------------------------------

\* A slip that filters the combining marks before decomposing.
normalize_text_marks_kept(text) ==
    IF text = <<>> THEN <<>>
    ELSE Join(<<" ">>, split(lower(NFD(StripMn(text)))))

\* Lines 110-130
normalize_text(text) ==
    IF text = <<>> THEN <<>>
    ELSE Join(<<" ">>, split(lower(StripMn(NFD(text)))))

\* ------------------------------------------------------------------------
\* Uploaded documents
\* ------------------------------------------------------------------------

\* A page whose text is one long token, one character short of the threshold.
FillerText == [i \in 1..(OCR_TEXT_LENGTH_THRESHOLD - 1) |-> "x"] \o <<"\n">>

\* What a page of a bill may read.
PageTexts ==
    { <<"E", "m", "i", "s", "s", "a", "o", " ", "0", "1", "/", "0", "7", "/", "2", "0", "2", "5", "\n", "V", "e", "n", "c", "i", "m", "e", "n", "t", "o", ":", " ", "1", "5", "/", "0", "8", "/", "2", "0", "2", "5", "\n", "4", "5", ",", "0", "0", " ", "r", "e", "a", "i", "s", "\n">>,
      <<"T", "O", "T", "A", "L", " ", "A", " ", "P", "A", "G", "A", "R", " ", "R", "$", " ", "8", "9", ",", "9", "0", "\n", "v", "e", "n", "c", "e", " ", "e", "m", " ", "d", "i", "a", " ", "1", "5", "/", "0", "8", "/", "3", "0", "\n">>,
      <<"0", "1", "/", "0", "1", "/", "2", "0", "2", "0", " ", "3", "1", "/", "0", "2", "/", "2", "0", "9", "9", " ", "1", "5", "/", "0", "8", "/", "3", "0", " ", "2", "0", "/", "1", "2", "/", "2", "0", "9", "9", "\n">>,
      <<"V", "a", "l", "o", "r", " ", "T", "o", "t", "a", "l", " ", "R", "$", " ", "1", ".", "2", "3", "4", ",", "5", "6", "\n">>,
      <<"R", "$", " ", "5", "0", ",", "0", "0", " ", "R", "$", " ", "1", "2", "0", ",", "0", "0", "\n">>,
      <<"R", "u", "a", " ", " ", "d", "a", "s", " ", "A_acute", "g", "u", "a", "s",
        ",", " ", "1", "2", "3", "\t", "C", "E", "P", " ",
        "1", "2", "3", "4", "5", "-", "6", "7", "8", "\n",
        "R", "$", " ", "1", ",", "2", "3", "4", ",", "5", "6", "\n">>,
      FillerText }

\* Pages that are scans: no text layer, the text is in the image only.
ScannedTexts ==
    { <<"R", "$", " ", "5", "0", ",", "0", "0", " ", "R", "$", " ", "1", "2", "0", ",", "0", "0", "\n">> }

\* A page: what page.get_text() returns and what image_to_string reads.
Pages ==
    {[native |-> t, image |-> t] : t \in PageTexts}
        \cup {[native |-> <<>>, image |-> t] : t \in ScannedTexts}

\* What the pages after the first may be.
FollowingPages ==
    {[native |-> t, image |-> t] : t \in {FillerText} \cup ScannedTexts}
        \cup {[native |-> <<>>, image |-> t] : t \in ScannedTexts}

\* The uploaded documents: one to MaxPages pages.
Pdfs ==
    {pdf \in UNION {[1..n -> Pages] : n \in 1..MaxPages} :
        \A i \in 2..Len(pdf) : pdf[i] \in FollowingPages}

\* ------------------------------------------------------------------------
\* extract_text_from_pdf
\* ------------------------------------------------------------------------

\* An exception that leaves the function instead of a returned value.
Raised == <<"Raised">>

\* Lines 170-175 without the except clause of lines 176-178: the exception
\* of the read of page fail_at leaves the function.
native_text_uncaught(pdf, fail_at) ==
    IF fail_at = 0
    THEN Flatten([i \in 1..Len(pdf) |-> pdf[i].native])
    ELSE Raised

\* Lines 170-178: the text layer of every page, concatenated; fail_at = 0 is
\* a read without error, fail_at = k an exception while page k is read.
native_text(pdf, fail_at) ==
    IF fail_at = 0
    THEN Flatten([i \in 1..Len(pdf) |-> pdf[i].native])
    ELSE <<>>

\* The test of line 181 without the strip().
needs_ocr_unstripped(text) == Len(text) < OCR_TEXT_LENGTH_THRESHOLD

\* Line 181
needs_ocr(text) == Len(strip(text)) < OCR_TEXT_LENGTH_THRESHOLD

\* Lines 184-193
ocr_text(pdf) == Join(<<"\n">>, [i \in 1..Len(pdf) |-> pdf[i].image])

\* ------------------------------------------------------------------------
\* _extract_due_date
\* ------------------------------------------------------------------------

RECURSIVE DigitRun(_, _, _)
\* How many of the characters from position i on are digits, up to cap.
DigitRun(text, i, cap) ==
    IF cap > 0 /\ i <= Len(text) /\ IsDigit(text[i])
    THEN 1 + DigitRun(text, i + 1, cap - 1)
    ELSE 0

\* The length of the match of \d{2}/\d{2}/\d{lo,hi} at position i; 0 if none.
DateLenAt(text, i, lo, hi) ==
    IF /\ i >= 1
       /\ i + 5 <= Len(text)
       /\ IsDigit(text[i]) /\ IsDigit(text[i + 1]) /\ text[i + 2] = "/"
       /\ IsDigit(text[i + 3]) /\ IsDigit(text[i + 4]) /\ text[i + 5] = "/"
       /\ DigitRun(text, i + 6, hi) >= lo
    THEN 6 + DigitRun(text, i + 6, hi)
    ELSE 0

\* The position after the match of (?:vencimento|vence\s*em|pagar\s+ate) at
\* position i; 0 if none.
KeywordEndAt(text, i) ==
    IF StartsWithAt(text, i, <<"v", "e", "n", "c", "i", "m", "e", "n", "t", "o">>) THEN i + 10
    ELSE IF /\ StartsWithAt(text, i, <<"v", "e", "n", "c", "e">>)
            /\ StartsWithAt(text, SkipSpaces(text, i + 5), <<"e", "m">>)
         THEN SkipSpaces(text, i + 5) + 2
    ELSE IF /\ StartsWithAt(text, i, <<"p", "a", "g", "a", "r">>)
            /\ SkipSpaces(text, i + 5) > i + 5
            /\ StartsWithAt(text, SkipSpaces(text, i + 5), <<"a", "t", "e">>)
         THEN SkipSpaces(text, i + 5) + 3
    ELSE 0

\* Where group 1 of the pattern of line 212 starts when the pattern matches
\* at position i; 0 if it does not.
AnchoredDateAt(text, i) ==
    LET k  == KeywordEndAt(text, i)
        j1 == SkipSpaces(text, k)
        j2 == IF j1 <= Len(text) /\ text[j1] \in {":", "-"} THEN j1 + 1 ELSE j1
        j3 == SkipSpaces(text, j2)
    IN IF k # 0 /\ DateLenAt(text, j3, 4, 4) # 0 THEN j3 ELSE 0

\* Lines 212-214: re.search, the leftmost match, group 1; None if no match.
keyword_anchored_date(text) ==
    LET hits == {i \in 1..Len(text) : AnchoredDateAt(text, i) # 0}
    IN IF hits = {} THEN None
       ELSE SubSeq(text, AnchoredDateAt(text, Min(hits)),
                   AnchoredDateAt(text, Min(hits)) + 9)

\* any(kw in line for kw in ['vencimento', 'vence em', 'pagar ate'])
HasDueKeyword(line) ==
    \/ Contains(line, <<"v", "e", "n", "c", "i", "m", "e", "n", "t", "o">>)
    \/ Contains(line, <<"v", "e", "n", "c", "e", " ", "e", "m">>)
    \/ Contains(line, <<"p", "a", "g", "a", "r", " ", "a", "t", "e">>)

\* re.search(r'(\d{2}/\d{2}/\d{2,4})', line): the leftmost date token; None
\* if the line has none.
FirstDate(line) ==
    LET hits == {i \in 1..Len(line) : DateLenAt(line, i, 2, 4) # 0}
    IN IF hits = {} THEN None
       ELSE SubSeq(line, Min(hits),
                   Min(hits) + DateLenAt(line, Min(hits), 2, 4) - 1)

\* Lines 217-221: the first date of the first line that has a keyword and a
\* date; None if no line has both.
same_line_date(text) ==
    LET lines == split_on(text, "\n")
        hits  == {k \in 1..Len(lines) :
                     HasDueKeyword(lines[k]) /\ FirstDate(lines[k]) # None}
    IN IF hits = {} THEN None ELSE FirstDate(lines[Min(hits)])

RECURSIVE DatesFrom(_, _)
\* re.findall(r'(\d{2}/\d{2}/\d{2,4})', text) from position i on: the matches
\* left to right, none overlapping.
DatesFrom(text, i) ==
    LET hits == {j \in i..Len(text) : DateLenAt(text, j, 2, 4) # 0}
    IN IF hits = {} THEN <<>>
       ELSE LET j == Min(hits)
                n == DateLenAt(text, j, 2, 4)
            IN <<SubSeq(text, j, j + n - 1)>> \o DatesFrom(text, j + n)

RECURSIVE NumVal(_)
\* int(digits)
NumVal(digits) ==
    IF digits = <<>> THEN 0
    ELSE 10 * NumVal(SubSeq(digits, 1, Len(digits) - 1))
             + DigitVal(digits[Len(digits)])

IsLeap(y) == (y % 4 = 0 /\ y % 100 # 0) \/ y % 400 = 0

DaysInMonth(y, m) ==
    IF m = 2 THEN (IF IsLeap(y) THEN 29 ELSE 28)
    ELSE IF m \in {4, 6, 9, 11} THEN 30 ELSE 31

\* Lines 229-231: the year, month and day a date token stands for.
DateFields(date_str) ==
    LET year_str == SubSeq(date_str, 7, Len(date_str))
    IN <<IF Len(year_str) = 2 THEN NumVal(<<"2", "0">> \o year_str)
         ELSE NumVal(year_str),
         NumVal(SubSeq(date_str, 4, 5)),
         NumVal(SubSeq(date_str, 1, 2))>>

\* Whether datetime(year, month, day) is a date (it raises ValueError if not).
IsCalendarDate(ymd) ==
    /\ ymd[1] \in 1..9999
    /\ ymd[2] \in 1..12
    /\ ymd[3] \in 1..DaysInMonth(ymd[1], ymd[2])

\* The order of the calendar, as one number.
DayKey(ymd) == ymd[1] * 10000 + ymd[2] * 100 + ymd[3]

\* Lines 224-243 with the test of line 233 left out: past dates stay in.
nearest_future_date_unfiltered(text, now) ==
    LET all_dates_str == DatesFrom(text, 1)
        future == {k \in 1..Len(all_dates_str) :
                      IsCalendarDate(DateFields(all_dates_str[k]))}
        key(k) == DayKey(DateFields(all_dates_str[k]))
    IN IF future = {} THEN None
       ELSE all_dates_str[Min({k \in future :
                                  \A h \in future : key(k) <= key(h)})]

\* Lines 224-243: the date tokens that are calendar dates on or after today;
\* min() returns the first of those with the least date.
nearest_future_date(text, now) ==
    LET all_dates_str == DatesFrom(text, 1)
        future == {k \in 1..Len(all_dates_str) :
                      /\ IsCalendarDate(DateFields(all_dates_str[k]))
                      /\ DayKey(DateFields(all_dates_str[k])) >= DayKey(now)}
        key(k) == DayKey(DateFields(all_dates_str[k]))
    IN IF future = {} THEN None
       ELSE all_dates_str[Min({k \in future :
                                  \A h \in future : key(k) <= key(h)})]

\* The strategies in another order: the same-line search before the anchored.
_extract_due_date_same_line_first(text, now) ==
    IF same_line_date(text) # None THEN same_line_date(text)
    ELSE IF keyword_anchored_date(text) # None THEN keyword_anchored_date(text)
    ELSE nearest_future_date(text, now)

\* Lines 203-243
_extract_due_date(text, now) ==
    IF keyword_anchored_date(text) # None THEN keyword_anchored_date(text)
    ELSE IF same_line_date(text) # None THEN same_line_date(text)
    ELSE nearest_future_date(text, now)

\* The days datetime.now() may fall on.
Todays == {<<2025, 8, 15>>, <<2030, 8, 15>>, <<2030, 8, 16>>, <<2100, 1, 1>>}

\* The clock before line 226 reads it.
ClockNotRead == <<0, 0, 0>>

\* What line 226 reads: the clock is read only when neither keyword search
\* has returned.
ClockChoices(text) ==
    IF keyword_anchored_date(text) # None \/ same_line_date(text) # None
    THEN {ClockNotRead}
    ELSE Todays

\* ------------------------------------------------------------------------
\* _clean_value_str_to_float, str(float) and format(float, '.2f')
\* ------------------------------------------------------------------------

\* A float that a decimal numeral denotes is kept as the numeral's value:
\* [num |-> n, scale |-> k] is n / 10^k.  The numerals of the model have at
\* most nine digits, so the float is the nearest to that value and its
\* shortest repr is the numeral without its trailing zeros.
Zero == [num |-> 0, scale |-> 0]

RECURSIVE Pow10(_)
Pow10(k) == IF k = 0 THEN 1 ELSE 10 * Pow10(k - 1)

\* a >= b
ValueGE(a, b) == a.num * Pow10(b.scale) >= b.num * Pow10(a.scale)

\* a > 0
ValuePositive(a) == a.num > 0

\* str.replace('r$', ''): the occurrences of "r$" cannot overlap
RemoveCurrency(text) ==
    LET marks == {i \in 1..(Len(text) - 1) : text[i] = "r" /\ text[i + 1] = "$"}
        keep  == SortedSeq({i \in 1..Len(text) :
                               i \notin marks /\ (i - 1) \notin marks})
    IN [k \in 1..Len(keep) |-> text[keep[k]]]

\* str.replace(a, b) for characters a; b is a text
ReplaceChar(text, a, b) ==
    Flatten([i \in 1..Len(text) |-> IF text[i] = a THEN b ELSE <<text[i]>>])

\* Lines 249-250
CleanedValue(value_str) ==
    ReplaceChar(ReplaceChar(strip(RemoveCurrency(lower(value_str))),
                            ".", <<>>),
                ",", <<".">>)

\* Whether float(cleaned) parses, for a text of the characters the patterns
\* let through: digits with at most one point and at least one digit.  Any
\* other character makes float() raise ValueError here (the model has no
\* sign, exponent, underscore, "inf" or "nan" in an amount).
IsFloatLiteral(cleaned) ==
    /\ \A i \in 1..Len(cleaned) : IsDigit(cleaned[i]) \/ cleaned[i] = "."
    /\ Cardinality({i \in 1..Len(cleaned) : cleaned[i] = "."}) <= 1
    /\ \E i \in 1..Len(cleaned) : IsDigit(cleaned[i])

\* Lines 245-253
_clean_value_str_to_float(value_str) ==
    LET cleaned == CleanedValue(value_str)
        points  == {i \in 1..Len(cleaned) : cleaned[i] = "."}
        digits  == SelectSeq(cleaned, IsDigit)
    IN IF ~IsFloatLiteral(cleaned) THEN Zero
       ELSE [num   |-> NumVal(digits),
             scale |-> IF points = {} THEN 0
                       ELSE Len(cleaned) - Min(points)]

RECURSIVE IntStr(_)
\* str(n) for a natural number n
IntStr(n) ==
    IF n < 10 THEN <<DigitChars[n + 1]>>
    ELSE IntStr(n \div 10) \o <<DigitChars[(n % 10) + 1]>>

\* The last k digits of n, with leading zeros.
FracStr(n, k) == [i \in 1..k |-> DigitChars[((n \div Pow10(k - i)) % 10) + 1]]

RECURSIVE Reduced(_)
\* The same value without trailing zeros in the fraction.
Reduced(v) ==
    IF v.scale > 0 /\ v.num % 10 = 0
    THEN Reduced([num |-> v.num \div 10, scale |-> v.scale - 1])
    ELSE v

\* str(v) of a float: the shortest numeral, with at least one fraction digit
FloatStr(v) ==
    LET r == Reduced(v)
    IN IF r.scale = 0 THEN IntStr(r.num) \o <<".", "0">>
       ELSE IntStr(r.num \div Pow10(r.scale)) \o <<".">>
                \o FracStr(r.num % Pow10(r.scale), r.scale)

\* f"{v:.2f}": two fraction digits, rounded to the nearest hundredth.  The
\* amounts of the model's documents have at most two fraction digits, so
\* nothing is rounded away; for a value halfway between two hundredths the
\* binary float decides in Python, and the operator takes the even one.
Fixed2(v) ==
    LET r    == Reduced(v)
        cut  == IF r.scale <= 2 THEN 1 ELSE Pow10(r.scale - 2)
        low  == IF r.scale <= 2 THEN r.num * Pow10(2 - r.scale)
                ELSE r.num \div cut
        rest == IF r.scale <= 2 THEN 0 ELSE r.num % cut
        up   == 2 * rest > cut \/ (2 * rest = cut /\ low % 2 = 1)
        cents == IF up THEN low + 1 ELSE low
    IN IntStr(cents \div 100) \o <<".">> \o FracStr(cents % 100, 2)

\* ------------------------------------------------------------------------
\* _extract_total_value
\* ------------------------------------------------------------------------

IsAmountChar(c) == IsDigit(c) \/ c \in {".", ","}

RECURSIVE AmountRun(_, _)
\* The length of the run of [\d.,] that starts at position i.
AmountRun(text, i) ==
    IF i <= Len(text) /\ IsAmountChar(text[i])
    THEN 1 + AmountRun(text, i + 1)
    ELSE 0

\* The position after w1\s+w2 at position i; 0 if none.
TwoWordsEndAt(text, i, w1, w2) ==
    IF /\ StartsWithAt(text, i, w1)
       /\ SkipSpaces(text, i + Len(w1)) > i + Len(w1)
       /\ StartsWithAt(text, SkipSpaces(text, i + Len(w1)), w2)
    THEN SkipSpaces(text, i + Len(w1)) + Len(w2)
    ELSE 0

\* The position after \s+w3 at position c, for c the end of a match (0 if
\* there was none); 0 if none.
NextWordEndAt(text, c, w3) ==
    IF /\ c # 0
       /\ SkipSpaces(text, c) > c
       /\ StartsWithAt(text, SkipSpaces(text, c), w3)
    THEN SkipSpaces(text, c) + Len(w3)
    ELSE 0

\* The position after (?:total\s+a\s+pagar|valor\s+total|total\s+da\s+conta)
\* at position i; 0 if none.  No two of the three match at one position.
TotalPhraseEndAt(text, i) ==
    Max({ NextWordEndAt(text, TwoWordsEndAt(text, i, <<"t", "o", "t", "a", "l">>, <<"a">>), <<"p", "a", "g", "a", "r">>),
          TwoWordsEndAt(text, i, <<"v", "a", "l", "o", "r">>, <<"t", "o", "t", "a", "l">>),
          NextWordEndAt(text, TwoWordsEndAt(text, i, <<"t", "o", "t", "a", "l">>, <<"d", "a">>), <<"c", "o", "n", "t", "a">>) })

\* Where group 1 of \s*r?\$\s*([\d.,]+) starts when it matches at k; 0 if not.
AmountAfter(text, k) ==
    LET j1 == SkipSpaces(text, k)
        j2 == IF j1 <= Len(text) /\ text[j1] = "r" THEN j1 + 1 ELSE j1
        j3 == SkipSpaces(text, j2 + 1)
    IN IF j2 <= Len(text) /\ text[j2] = "$" /\ AmountRun(text, j3) >= 1
       THEN j3 ELSE 0

\* Where group 1 of the pattern of line 264 starts when the pattern matches
\* at position i; 0 if it does not.
AnchoredAmountAt(text, i) ==
    IF TotalPhraseEndAt(text, i) = 0 THEN 0
    ELSE AmountAfter(text, TotalPhraseEndAt(text, i))

\* Line 264: re.search, the leftmost match, group 1; None if no match.
keyword_anchored_amount(text) ==
    LET hits == {i \in 1..Len(text) : AnchoredAmountAt(text, i) # 0}
    IN IF hits = {} THEN None
       ELSE SubSeq(text, AnchoredAmountAt(text, Min(hits)),
                   AnchoredAmountAt(text, Min(hits))
                       + AmountRun(text, AnchoredAmountAt(text, Min(hits))) - 1)

\* Where group 1 of r\$\s*([\d.,]{2,}) starts when it matches at i; 0 if not.
CurrencyAmountAt(text, i) ==
    LET j == SkipSpaces(text, i + 2)
    IN IF StartsWithAt(text, i, <<"r", "$">>) /\ AmountRun(text, j) >= 2
       THEN j ELSE 0

RECURSIVE CurrencyAmountsFrom(_, _)
\* Line 269: re.findall from position i on, left to right, none overlapping.
CurrencyAmountsFrom(text, i) ==
    LET hits == {j \in i..Len(text) : CurrencyAmountAt(text, j) # 0}
    IN IF hits = {} THEN <<>>
       ELSE LET j == CurrencyAmountAt(text, Min(hits))
                n == AmountRun(text, j)
            IN <<SubSeq(text, j, j + n - 1)>> \o CurrencyAmountsFrom(text, j + n)

\* max(values) of a non-empty sequence of values
MaxValue(values) ==
    values[CHOOSE k \in 1..Len(values) :
              \A h \in 1..Len(values) : ValueGE(values[k], values[h])]

\* ent.label_ == "MONEY" and any(c.isdigit() for c in ent.text)
HasDigit(text) == \E i \in 1..Len(text) : IsDigit(text[i])

\* Lines 276-286: money_values of the entities the recognizer tagged MONEY;
\* None when the model is not loaded or nothing is left.
entity_amount(ents) ==
    LET money == SelectSeq(ents, HasDigit)
        money_values == [k \in 1..Len(money) |->
                            _clean_value_str_to_float(money[k])]
        in_range(v) == ValuePositive(v) /\ v.num \div Pow10(v.scale) < 1000000
        valid_values == SelectSeq(money_values, in_range)
    IN IF valid_values = <<>> THEN None ELSE Fixed2(MaxValue(valid_values))

\* Lines 255-288; ents is what the recognizer tags on the text (empty when
\* the language model is not loaded).
_extract_total_value(text, ents) ==
    LET match   == keyword_anchored_amount(text)
        matches == CurrencyAmountsFrom(text, 1)
        possible_values == [k \in 1..Len(matches) |->
                               _clean_value_str_to_float(matches[k])]
    IN IF match # None THEN FloatStr(_clean_value_str_to_float(match))
       ELSE IF matches # <<>> THEN Fixed2(MaxValue(possible_values))
       ELSE entity_amount(ents)

\* The spans the recognizer may tag on a text: its words that hold a digit.
EntityCandidates(text) == {w \in {split(text)[k] : k \in 1..Len(split(text))} :
                              HasDigit(w)}

\* What doc.ents may be when line 277 runs the recognizer: up to MaxEntities
\* of the candidates.  The recognizer is not run, and nothing is tagged, when
\* one of the patterns of lines 264 and 269 has matched.
EntityChoices(text) ==
    IF keyword_anchored_amount(text) # None \/ CurrencyAmountsFrom(text, 1) # <<>>
    THEN {<<>>}
    ELSE UNION {[1..n -> EntityCandidates(text)] : n \in 0..MaxEntities}

\* ------------------------------------------------------------------------
\* _categorize_invoice and extract_financial_data
\* ------------------------------------------------------------------------

\* Lines 295-301, in the order of the dictionary; the labels "Agua" and
\* "Condominio" stand for the accented labels of the source.
CATEGORIES ==
    << [category |-> "Internet",
        keywords |-> <<<<"i", "n", "t", "e", "r", "n", "e", "t">>, <<"t", "e", "l", "e", "c", "o", "m">>, <<"f", "i", "b", "r", "a">>, <<"b", "a", "n", "d", "a", " ", "l", "a", "r", "g", "a">>,
                       <<"v", "i", "v", "o">>, <<"c", "l", "a", "r", "o">>, <<"t", "i", "m">>, <<"o", "i">>, <<"a", "l", "g", "a", "r">>,
                       <<"b", "r", "i", "s", "a", "n", "e", "t">>>>],
       [category |-> "Energia",
        keywords |-> <<<<"e", "n", "e", "r", "g", "i", "a">>, <<"e", "l", "e", "t", "r", "i", "c", "a">>, <<"e", "l", "e", "t", "r", "o", "b", "r", "a", "s">>,
                       <<"n", "e", "o", "e", "n", "e", "r", "g", "i", "a">>, <<"e", "n", "e", "l">>, <<"c", "p", "f", "l">>, <<"e", "q", "u", "a", "t", "o", "r", "i", "a", "l">>,
                       <<"c", "e", "m", "i", "g">>, <<"l", "i", "g", "h", "t">>>>],
       [category |-> "Agua",
        keywords |-> <<<<"a", "g", "u", "a">>, <<"s", "a", "n", "e", "a", "m", "e", "n", "t", "o">>, <<"s", "a", "b", "e", "s", "p">>, <<"c", "o", "p", "a", "s", "a">>,
                       <<"s", "a", "n", "e", "p", "a", "r">>, <<"c", "a", "s", "a", "n">>, <<"a", "e", "g", "e", "a">>, <<"i", "g", "u", "a">>, <<"c", "o", "r", "s", "a", "n">>,
                       <<"e", "m", "b", "a", "s", "a">>>>],
       [category |-> "Condominio",
        keywords |-> <<<<"c", "o", "n", "d", "o", "m", "i", "n", "i", "o">>>>],
       [category |-> "Imposto",
        keywords |-> <<<<"i", "p", "t", "u">>, <<"i", "m", "p", "o", "s", "t", "o", " ", "p", "r", "e", "d", "i", "a", "l">>, <<"t", "r", "i", "b", "u", "t", "o">>>>] >>

\* Lines 302-307
_categorize_invoice(text) ==
    LET hits == {k \in 1..Len(CATEGORIES) :
                    \E h \in 1..Len(CATEGORIES[k].keywords) :
                        Contains(text, CATEGORIES[k].keywords[h])}
    IN IF hits = {} THEN "Outros" ELSE CATEGORIES[Min(hits)].category

\* Lines 309-327
extract_financial_data(text, now, ents) ==
    [valor_total     |-> _extract_total_value(text, ents),
     data_vencimento |-> _extract_due_date(text, now),
     categoria       |-> _categorize_invoice(text)]

\* ------------------------------------------------------------------------
\* The request handler, up to the extracted text
\* ------------------------------------------------------------------------

\* has_file: 'arquivo' in request.files; is_pdf: the file name ends in .pdf;
\* pdf: the pages of the file, once file.read() has read them.
NoRequest == [has_file |-> FALSE, is_pdf |-> FALSE, pdf |-> <<>>]

NoForm == [tipo_analise |-> "", endereco_formulario |-> None,
           cep_formulario |-> None]

NoData == [valor_total |-> None, data_vencimento |-> None, categoria |-> None]

NoResponse == [status |-> 0, kind |-> "none", dados |-> None]

Reply(status, kind) == [status |-> status, kind |-> kind, dados |-> None]

Init ==
    /\ pc = "idle"
    /\ request = NoRequest
    /\ full_text = <<>>
    /\ native_failed = FALSE
    /\ ocr_invoked = FALSE
    /\ ocr_failed = FALSE
    /\ extracted_text = None
    /\ today = ClockNotRead
    /\ financial_data = NoData
    /\ form = NoForm
    /\ response = NoResponse

\* Lines 338-339
MissingFile ==
    /\ pc = "idle"
    /\ request' = NoRequest
    /\ response' = Reply(400, "missing_file")
    /\ pc' = "done"
    /\ UNCHANGED <<full_text, native_failed, ocr_invoked, ocr_failed,
                   extracted_text, today, financial_data, form>>

\* Lines 341-343
NotPdf ==
    /\ pc = "idle"
    /\ request' = [has_file |-> TRUE, is_pdf |-> FALSE, pdf |-> <<>>]
    /\ response' = Reply(400, "not_pdf")
    /\ pc' = "done"
    /\ UNCHANGED <<full_text, native_failed, ocr_invoked, ocr_failed,
                   extracted_text, today, financial_data, form>>

\* Lines 341-349
AcceptFile ==
    /\ pc = "idle"
    /\ \E pdf \in Pdfs :
          request' = [has_file |-> TRUE, is_pdf |-> TRUE, pdf |-> pdf]
    /\ pc' = "native"
    /\ UNCHANGED <<full_text, native_failed, ocr_invoked, ocr_failed,
                   extracted_text, today, financial_data, form, response>>

\* Lines 170-178; an exception that leaves extract_text_from_pdf is caught
\* by the handler (lines 387-390).
NativeExtraction ==
    /\ pc = "native"
    /\ \E fail_at \in 0..Len(request.pdf) :
          /\ native_failed' = (fail_at # 0)
          /\ IF native_text(request.pdf, fail_at) = Raised
             THEN /\ extracted_text' = Raised
                  /\ response' = Reply(500, "internal_error")
                  /\ pc' = "done"
                  /\ UNCHANGED full_text
             ELSE /\ full_text' = native_text(request.pdf, fail_at)
                  /\ pc' = "threshold"
                  /\ UNCHANGED <<extracted_text, response>>
    /\ UNCHANGED <<request, ocr_invoked, ocr_failed, today, financial_data, form>>

\* Lines 181-198, the branch that runs the optical recognition
OcrFallback ==
    /\ pc = "threshold"
    /\ needs_ocr(full_text)
    /\ ocr_invoked' = TRUE
    /\ \E fails \in BOOLEAN :
          /\ ocr_failed' = fails
          /\ full_text' = IF fails THEN full_text ELSE ocr_text(request.pdf)
          /\ extracted_text' = IF fails THEN <<>>
                               ELSE normalize_text(ocr_text(request.pdf))
    /\ pc' = "text"
    /\ UNCHANGED <<request, native_failed, today, financial_data, form, response>>

\* Lines 181 and 198, the branch that keeps the text layer
NativeKept ==
    /\ pc = "threshold"
    /\ ~needs_ocr(full_text)
    /\ extracted_text' = normalize_text(full_text)
    /\ pc' = "text"
    /\ UNCHANGED <<request, full_text, native_failed, ocr_invoked, ocr_failed,
                   today, financial_data, form, response>>

\* Lines 352-353
NoText ==
    /\ pc = "text"
    /\ extracted_text = <<>>
    /\ response' = Reply(400, "no_text")
    /\ pc' = "done"
    /\ UNCHANGED <<request, full_text, native_failed, ocr_invoked, ocr_failed,
                   extracted_text, today, financial_data, form>>

\* ------------------------------------------------------------------------
\* Address validation
\* ------------------------------------------------------------------------

\* re.sub(r'\D', '', text)
OnlyDigits(text) == SelectSeq(text, IsDigit)

\* Whether position p (1..Len + 1) is a \b of the text: exactly one of the
\* characters before and at p is a word character.
IsBoundary(text, p) ==
    LET before == p > 1 /\ IsWord(text[p - 1])
        at     == p <= Len(text) /\ IsWord(text[p])
    IN before # at

RECURSIVE NonWordRun(_, _)
\* The length of the run of \W that starts at position i.
NonWordRun(text, i) ==
    IF i <= Len(text) /\ ~IsWord(text[i])
    THEN 1 + NonWordRun(text, i + 1)
    ELSE 0

RECURSIVE MatchEnds(_, _, _)
\* The positions after the matches of words[1] \W* words[2] \W* ... that
\* start at position i.
MatchEnds(text, i, words) ==
    IF ~StartsWithAt(text, i, Head(words)) THEN {}
    ELSE LET a == i + Len(Head(words))
         IN IF Len(words) = 1 THEN {a}
            ELSE UNION {MatchEnds(text, a + g, Tail(words)) :
                           g \in 0..NonWordRun(text, a)}

\* Line 382: re.search(r'\b' + r'\W*'.join(map(re.escape, words)) + r'\b', text)
street_pattern_found(words, text) ==
    \E i \in 1..(Len(text) + 1) :
        /\ IsBoundary(text, i)
        /\ \E e \in MatchEnds(text, i, words) : IsBoundary(text, e)

\* Line 381
logradouro_of(address_from_form) ==
    strip(split_on(normalize_text(address_from_form), ",")[1])

\* Lines 376-385 without the test that the cleaned postal code is not empty.
address_outcome_empty_cep(text, address_from_form, cep_from_form) ==
    IF address_from_form = <<>> /\ cep_from_form = <<>> THEN "no_form"
    ELSE IF Contains(OnlyDigits(text), OnlyDigits(cep_from_form)) THEN "cep"
    ELSE IF /\ logradouro_of(address_from_form) # <<>>
            /\ street_pattern_found(split(logradouro_of(address_from_form)), text)
         THEN "logradouro"
    ELSE "no_match"

\* Lines 372-385, for the stripped form fields: which reply is given.
address_outcome(text, address_from_form, cep_from_form) ==
    IF address_from_form = <<>> /\ cep_from_form = <<>> THEN "no_form"
    ELSE IF /\ OnlyDigits(cep_from_form) # <<>>
            /\ Contains(OnlyDigits(text), OnlyDigits(cep_from_form))
         THEN "cep"
    ELSE IF /\ logradouro_of(address_from_form) # <<>>
            /\ street_pattern_found(split(logradouro_of(address_from_form)), text)
         THEN "logradouro"
    ELSE "no_match"

\* What the form may hold in endereco_formulario ("" when it is not sent).
FormAddresses ==
    { <<>>,
      <<" ", "R", "u", "a", " ", "d", "a", "s", " ", "A_acute", "g", "u", "a", "s",
        ",", " ", "1", "2", "3">>,
      <<"r", "u", "a", " ", "d", "a", "s", " ", "a", "g", "u", "a">>,
      <<",", " ", "1", "2", "3">> }

\* What the form may hold in cep_formulario ("" when it is not sent).
FormCeps == { <<>>, <<"1", "2", "3", "4", "5", "-", "6", "7", "8", " ">>, <<"-", "-">> }

\* ------------------------------------------------------------------------
\* The request handler, from the extracted text on
\* ------------------------------------------------------------------------

\* not x, for x a text or None
Falsy(x) == x = None \/ x = <<>>

\* Line 360 with "and" for "or".
essential_missing_both(data) ==
    Falsy(data.valor_total) /\ Falsy(data.data_vencimento)

\* Line 360
essential_missing(data) ==
    Falsy(data.valor_total) \/ Falsy(data.data_vencimento)

\* Lines 356-366
ExtractFinancial ==
    /\ pc = "text"
    /\ extracted_text # <<>>
    /\ \E now \in ClockChoices(extracted_text),
          ents \in EntityChoices(extracted_text) :
          LET data == extract_financial_data(extracted_text, now, ents)
          IN /\ today' = now
             /\ financial_data' = data
             /\ response' = IF essential_missing(data)
                            THEN Reply(422, "missing_fields")
                            ELSE [status |-> 200, kind |-> "dados",
                                  dados |-> data]
    /\ form' = [NoForm EXCEPT !.tipo_analise = ANALYSIS_TYPE_EXTRACTION]
    /\ pc' = "done"
    /\ UNCHANGED <<request, full_text, native_failed, ocr_invoked, ocr_failed,
                   extracted_text>>

\* Lines 368-385
ValidateAddress ==
    /\ pc = "text"
    /\ extracted_text # <<>>
    /\ \E address \in FormAddresses, cep \in FormCeps :
          LET kind == address_outcome(extracted_text, strip(address), strip(cep))
          IN /\ form' = [tipo_analise |-> ANALYSIS_TYPE_VALIDATION,
                         endereco_formulario |-> address,
                         cep_formulario |-> cep]
             /\ response' = Reply(IF kind \in {"cep", "logradouro"}
                                  THEN 200 ELSE 400, kind)
    /\ pc' = "done"
    /\ UNCHANGED <<request, full_text, native_failed, ocr_invoked, ocr_failed,
                   extracted_text, today, financial_data>>

Next ==
    \/ MissingFile
    \/ NotPdf
    \/ AcceptFile
    \/ NativeExtraction
    \/ OcrFallback
    \/ NativeKept
    \/ NoText
    \/ ExtractFinancial
    \/ ValidateAddress

Spec == Init /\ [][Next]_vars

\* ------------------------------------------------------------------------
\* Properties
\* ------------------------------------------------------------------------

\* The handler has replied to a request for the extraction of a bill.
ExtractionDone ==
    pc = "done" /\ form.tipo_analise = ANALYSIS_TYPE_EXTRACTION

\* The handler has replied to a request for the validation of an address.
ValidationDone ==
    pc = "done" /\ form.tipo_analise = ANALYSIS_TYPE_VALIDATION

\* The text layer of the uploaded document as the try block leaves it: empty
\* when the read failed.
NativeLayer ==
    IF native_failed THEN <<>>
    ELSE Flatten([i \in 1..Len(request.pdf) |-> request.pdf[i].native])

\* A numeral with a point and exactly two digits after it.
IsTwoDecimalString(s) ==
    /\ Len(s) >= 4
    /\ s[Len(s) - 2] = "."
    /\ \A i \in (1..Len(s)) \ {Len(s) - 2} : IsDigit(s[i])

\* DD/MM/YYYY
IsDDMMYYYY(s) ==
    /\ Len(s) = 10
    /\ s[3] = "/" /\ s[6] = "/"
    /\ \A i \in {1, 2, 4, 5, 7, 8, 9, 10} : IsDigit(s[i])

\* C1: in the extraction mode, with a text extracted, the reply is 200 with
\* the record exactly when the extractors found both a total and a due date;
\* when either is absent the reply is 422 and carries no record.
C1_SuccessOnlyWithBothFields ==
    ExtractionDone =>
        /\ \E ents \in EntityChoices(extracted_text) :
              financial_data.valor_total = _extract_total_value(extracted_text, ents)
        /\ financial_data.data_vencimento = _extract_due_date(extracted_text, today)
        /\ IF /\ financial_data.valor_total \notin {None, <<>>}
              /\ financial_data.data_vencimento \notin {None, <<>>}
           THEN response = [status |-> 200, kind |-> "dados",
                            dados |-> financial_data]
           ELSE response.status = 422 /\ response.dados = None

\* A bill with a total and no due date was refused.
C1_Witness ==
    /\ ExtractionDone
    /\ financial_data.valor_total # None
    /\ financial_data.data_vencimento = None
    /\ response.status = 422

\* C2: every total that _extract_total_value returns, whichever strategy
\* found it, is a numeral with a point and exactly two fraction digits.
C2_TotalHasTwoFractionDigits ==
    ExtractionDone /\ financial_data.valor_total # None
        => IsTwoDecimalString(financial_data.valor_total)

\* C3: the optical recognition runs if and only if the trimmed length of the
\* native text is below the threshold; with at least that many characters
\* it does not run and the result is the normalized native text.
C3_OcrIffNativeTextShort ==
    pc \in {"text", "done"} /\ request.is_pdf /\ extracted_text # Raised =>
        /\ ocr_invoked <=> Len(strip(NativeLayer)) < OCR_TEXT_LENGTH_THRESHOLD
        /\ Len(strip(NativeLayer)) >= OCR_TEXT_LENGTH_THRESHOLD =>
              extracted_text = normalize_text(NativeLayer)

\* A text layer long enough was kept, without optical recognition.
C3_Witness ==
    /\ pc = "text"
    /\ ~ocr_invoked
    /\ Len(strip(NativeLayer)) >= OCR_TEXT_LENGTH_THRESHOLD
    /\ extracted_text = normalize_text(NativeLayer)

\* C4: extract_text_from_pdf never raises and returns a string, whatever
\* fails: a failed native read counts as an empty native text, so the
\* optical recognition runs, and a failed optical recognition gives "".
C4_FailsClosed ==
    /\ extracted_text # Raised
    /\ response.status # 500
    /\ pc = "threshold" /\ native_failed => full_text = <<>>
    /\ pc \in {"text", "done"} /\ native_failed => ocr_invoked
    /\ pc \in {"text", "done"} /\ ocr_failed => extracted_text = <<>>
    /\ pc = "text" => extracted_text # None

\* Both the native read and the optical recognition failed, and the
\* function returned "".
C4_Witness ==
    /\ pc = "text"
    /\ native_failed
    /\ ocr_invoked /\ ocr_failed
    /\ extracted_text = <<>>

\* C5: the three strategies of _extract_due_date in strict order: the date
\* after the keyword if the anchored pattern matches, whatever other dates
\* the text holds; else the first date of the first line with a keyword;
\* else, and only then, the nearest future date, for which the clock is read.
C5_StrategiesInPriorityOrder ==
    ExtractionDone =>
        IF keyword_anchored_date(extracted_text) # None
        THEN /\ financial_data.data_vencimento
                   = keyword_anchored_date(extracted_text)
             /\ today = ClockNotRead
        ELSE IF same_line_date(extracted_text) # None
        THEN /\ financial_data.data_vencimento = same_line_date(extracted_text)
             /\ today = ClockNotRead
        ELSE /\ today \in Todays
             /\ financial_data.data_vencimento
                   = nearest_future_date(extracted_text, today)

\* The anchored pattern and the same-line search find different dates, and
\* the anchored one was returned.
C5_Witness ==
    /\ ExtractionDone
    /\ keyword_anchored_date(extracted_text) # None
    /\ same_line_date(extracted_text) # None
    /\ same_line_date(extracted_text) # keyword_anchored_date(extracted_text)
    /\ financial_data.data_vencimento = keyword_anchored_date(extracted_text)

\* C6: a due date in the record, whichever strategy found it, has the form
\* DD/MM/YYYY.
C6_DueDateIsDDMMYYYY ==
    ExtractionDone /\ financial_data.data_vencimento # None
        => IsDDMMYYYY(financial_data.data_vencimento)

\* C7: when neither keyword strategy finds a date, the result is the token
\* of the earliest calendar date among the tokens that are calendar dates on
\* or after today (two-digit years in the 2000s); past dates and tokens that
\* are no dates are never returned, and with no such token the result is
\* nothing.
C7_FallbackIsNearestFuture ==
    /\ ExtractionDone
    /\ keyword_anchored_date(extracted_text) = None
    /\ same_line_date(extracted_text) = None
    => LET tokens == DatesFrom(extracted_text, 1)
           day(k) == DayKey(DateFields(tokens[k]))
           qualifies == {k \in 1..Len(tokens) :
                            /\ IsCalendarDate(DateFields(tokens[k]))
                            /\ day(k) >= DayKey(today)}
       IN /\ today \in Todays
          /\ IF qualifies = {}
             THEN financial_data.data_vencimento = None
             ELSE \E k \in qualifies :
                     /\ financial_data.data_vencimento = tokens[k]
                     /\ \A h \in qualifies : day(k) <= day(h)

\* With 01/01/2020 and 20/12/2099 in the text, no keyword, and a today after
\* the other dates of the text, 20/12/2099 was returned.
C7_Witness ==
    /\ ExtractionDone
    /\ keyword_anchored_date(extracted_text) = None
    /\ same_line_date(extracted_text) = None
    /\ Contains(extracted_text, <<"0", "1", "/", "0", "1", "/", "2", "0", "2", "0">>)
    /\ today = <<2030, 8, 16>>
    /\ financial_data.data_vencimento = <<"2", "0", "/", "1", "2", "/", "2", "0", "9", "9">>

\* C8: when no total phrase matches and the text has currency tokens, the
\* total is the maximum of the values of the tokens that parse; a token that
\* does not parse takes no part in the maximum and its 0.0 is never the
\* total.
C8_MaximumExcludesUnparseable ==
    /\ ExtractionDone
    /\ keyword_anchored_amount(extracted_text) = None
    /\ CurrencyAmountsFrom(extracted_text, 1) # <<>>
    => LET tokens == CurrencyAmountsFrom(extracted_text, 1)
           parsed == SelectSeq(tokens,
                               LAMBDA t : IsFloatLiteral(CleanedValue(t)))
           values == [k \in 1..Len(parsed) |->
                         _clean_value_str_to_float(parsed[k])]
       IN IF parsed = <<>>
          THEN financial_data.valor_total # Fixed2(Zero)
          ELSE financial_data.valor_total = Fixed2(MaxValue(values))

\* C9: the validation of an address follows a fixed precedence: by postal
\* code when its digits are not empty and occur in the digits of the text,
\* whatever the address; else by street when the street component is not
\* empty and its words occur in order in the text with only non-word
\* characters between them; else no match.  An empty cleaned postal code or
\* an empty street component never matches.
C9_AddressPrecedence ==
    ValidationDone =>
        LET cep    == OnlyDigits(strip(form.cep_formulario))
            street == logradouro_of(strip(form.endereco_formulario))
            by_cep == cep # <<>> /\ Contains(OnlyDigits(extracted_text), cep)
            by_street == /\ street # <<>>
                         /\ street_pattern_found(split(street), extracted_text)
        IN IF by_cep THEN response = Reply(200, "cep")
           ELSE IF by_street THEN response = Reply(200, "logradouro")
           ELSE /\ response.status = 400
                /\ response.kind \in {"no_form", "no_match"}

\* A postal code without digits was sent, and the address matched by street.
C9_Witness ==
    /\ ValidationDone
    /\ strip(form.cep_formulario) # <<>>
    /\ OnlyDigits(form.cep_formulario) = <<>>
    /\ response = Reply(200, "logradouro")

\* C10: normalize_text is idempotent: normalizing its result again changes
\* nothing, the result being lowercase, free of combining marks and
\* single-spaced.
C10_NormalizeIdempotent ==
    /\ pc \in {"text", "done"} /\ extracted_text \notin {None, Raised} =>
          /\ normalize_text(extracted_text) = extracted_text
          /\ \A i \in 1..Len(extracted_text) :
                /\ LowerChar(extracted_text[i]) = extracted_text[i]
                /\ NFDChar(extracted_text[i]) = <<extracted_text[i]>>
                /\ ~IsMn(extracted_text[i])
                /\ extracted_text[i] \notin {"\n", "\t"}
                /\ extracted_text[i] = " " =>
                      /\ 1 < i /\ i < Len(extracted_text)
                      /\ extracted_text[i + 1] # " "
    /\ ValidationDone =>
          LET once == normalize_text(strip(form.endereco_formulario))
          IN normalize_text(once) = once

\* A page with an accented capital was normalized.
C10_Witness ==
    /\ pc = "text"
    /\ \E i \in 1..Len(request.pdf) :
          Contains(request.pdf[i].image, <<"A_acute">>)
    /\ Contains(extracted_text, <<"r", "u", "a", " ", "d", "a", "s", " ", "a", "g", "u", "a", "s">>)

=============================================================================
